---- MODULE Spec2Model ----
(***************************************************************************)
(* A model of wok's CRI runtime service (src/src/server/runtime.rs): the   *)
(* sandbox registry, the container registry, the running-set of            *)
(* cancellation tokens and the process-wide waSCC host, driven by the      *)
(* RuntimeService RPC handlers.  One action is one handler, run from its   *)
(* first statement to its response (or to the panic that aborts it).       *)
(***************************************************************************)
EXTENDS Integers, Sequences, FiniteSets, TLC

VARIABLES
    sandboxes,           \* CriRuntimeService.sandboxes: id -> UserSandbox
    containers,          \* CriRuntimeService.containers: id -> UserContainer
    running_containers,  \* CriRuntimeService.running_containers: id -> token
    actors,              \* keys of the actors loaded in the waSCC host
    uuids,               \* how many UUIDs Uuid::new_v4 has handed out, per kind
    modules,             \* the image service's ModuleStore.modules: a Vec<Module>
    runtime_modules,     \* the runtime service's own ModuleStore.modules
    pod_cidr,            \* CriRuntimeService.pod_cidr: Option<IpNet>
    tasks,               \* the handler invocations in flight: where each one stands
    locks,               \* who holds each of the service's locks
    harness,             \* the RuntimeContainer of each invocation and its spawned task
    futures,             \* the RuntimeFuture values: shared state, runner thread, callers
    last                 \* the latest RPC: its name, its outcome, the token calls it made

vars == <<sandboxes, containers, running_containers, actors, uuids, modules,
          runtime_modules, pod_cidr, tasks, locks, harness, futures, last>>

\* What the registry RPCs, run one at a time, leave alone.
untouched ==
    <<modules, runtime_modules, pod_cidr, tasks, locks, harness, futures>>

(***************************************************************************)
(* Bounds of the model.                                                    *)
(***************************************************************************)
MaxSandboxes == 2
MaxContainers == 2
\* The longest module catalog.
MaxModules == 3
\* The width of Module.size and of used_bytes, a u64, scaled down to this many bits.
SizeBits == 3

SandboxIds == 1..MaxSandboxes
ContainerIds == 1..MaxContainers
NoId == 0

(***************************************************************************)
(* Option<T>, maps and small helpers.                                      *)
(***************************************************************************)
None == [some |-> FALSE]
Some(v) == [some |-> TRUE, val |-> v]

EmptyMap == [x \in {} |-> NoId]
\* Option::unwrap_or_default, given the type's default.
unwrap_or_default(option, default) == IF option.some THEN option.val ELSE default
Insert(m, k, v) == [x \in (DOMAIN m) \cup {k} |-> IF x = k THEN v ELSE m[x]]
Remove(m, k) == [x \in (DOMAIN m) \ {k} |-> m[x]]

\* Vec::remove(pos): the sequence without its pos-th element.
VecRemove(s, pos) == [i \in 1..(Len(s) - 1) |-> IF i < pos THEN s[i] ELSE s[i + 1]]

\* Iterator::position: the first index whose element is x, 0 when there is none.
Position(s, x) ==
    IF \E i \in 1..Len(s) : s[i] = x
    THEN CHOOSE i \in 1..Len(s) : s[i] = x /\ \A j \in 1..(i - 1) : s[j] # x
    ELSE 0

(***************************************************************************)
(* grpc enums, status codes and the request values the model draws.        *)
(***************************************************************************)
SandboxReady == "SANDBOX_READY"
SandboxNotready == "SANDBOX_NOTREADY"

ContainerCreated == "CONTAINER_CREATED"
ContainerRunning == "CONTAINER_RUNNING"
ContainerExited == "CONTAINER_EXITED"
ContainerUnknown == "CONTAINER_UNKNOWN"

OK == "OK"
InvalidArgument == "InvalidArgument"
NotFound == "NotFound"
FailedPrecondition == "FailedPrecondition"
Internal == "Internal"
IoError == "IoError"   \* Status::from(std::io::Error), raised by `?` on an fs call
Panic == "Panic"       \* the handler aborted (unwrap, expect, todo!): no response

ACTOR_KEY_ANNOTATION == "deislabs.io/actor-key"

\* RunPodSandboxRequest.runtime_handler values.
Handlers == {"", "WASI", "WASCC", "wasm"}
\* RunPodSandboxRequest.config: missing, or present.
SandboxConfigs == {None, Some([labels |-> EmptyMap])}
\* ImageSpec.image strings, as sequences of characters.
WellFormedImage == <<"f", "/", "b", ":", "z">>
MalformedImage == <<"f", "b">>
\* ContainerConfig.image: missing, or an ImageSpec.
Images == {None, Some(WellFormedImage), Some(MalformedImage)}
\* ContainerConfig.annotations: without and with the actor key.
Annotations == {EmptyMap, [k \in {ACTOR_KEY_ANNOTATION} |-> "K1"]}
\* ContainerConfig::default(): no image, no annotations, no labels.
DefaultContainerConfig == [image |-> None, annotations |-> EmptyMap, labels |-> EmptyMap]
\* CreateContainerRequest.config: missing, or a ContainerConfig.
ContainerConfigs ==
    {None} \cup {Some([image |-> image, annotations |-> annotations, labels |-> EmptyMap]) :
                     image \in Images, annotations \in Annotations}
\* What wascc_run can come to: see wascc_run below.
WasccOutcomes == {"ok", "load_err", "add_err", "configure_err"}

(***************************************************************************)
(* RuntimeHandler.                                                         *)
(***************************************************************************)
\* A mutant of RuntimeHandlerDefault: the other handler as the default.
RuntimeHandlerDefault_Wascc == "WASCC"

RuntimeHandlerDefault == "WASI"

\* A mutant of from_string: an unknown handler falls back to the default.
from_string_lenient(s) ==
    CASE s = "WASCC" -> Some("WASCC")
      [] OTHER -> Some("WASI")

from_string(s) ==
    CASE s = "" -> Some(RuntimeHandlerDefault)
      [] s = "WASI" -> Some("WASI")
      [] s = "WASCC" -> Some("WASCC")
      [] OTHER -> None

(***************************************************************************)
(* docker::Reference: TryFrom<String>.  The first '/' and the first ':'    *)
(* after it; an error when either is missing.                              *)
(***************************************************************************)
Find(s, from, ch) ==
    IF \E i \in from..Len(s) : s[i] = ch
    THEN CHOOSE i \in from..Len(s) : s[i] = ch /\ \A j \in from..(i - 1) : s[j] # ch
    ELSE 0

try_from(string) ==
    LET slash == Find(string, 1, "/")
        colon == IF slash = 0 THEN 0 ELSE Find(string, slash + 1, ":")
    IN  IF slash = 0 \/ colon = 0
        THEN None
        ELSE Some([whole |-> string, slash |-> slash, colon |-> colon])

(***************************************************************************)
(* Uuid::new_v4: an id never handed out before.                            *)
(***************************************************************************)
new_v4(issued) == issued + 1

(***************************************************************************)
(* has_labels, list_pod_sandbox and list_containers.                       *)
(***************************************************************************)
\* A mutant of has_labels: the keys are looked for, their values are not compared.
has_labels_keys_only(search_labels, target_labels) ==
    \A key \in DOMAIN search_labels : key \in DOMAIN target_labels

has_labels(search_labels, target_labels) ==
    \A key \in DOMAIN search_labels :
        key \in DOMAIN target_labels /\ target_labels[key] = search_labels[key]

\* PodSandboxFilter::default(): no id, no state, no labels.
DefaultFilter == [id |-> NoId, state |-> None, label_selector |-> EmptyMap]

RECURSIVE SortedIds(_)
SortedIds(S) ==
    IF S = {} THEN <<>>
    ELSE LET m == CHOOSE x \in S : \A y \in S : x <= y
         IN  <<m>> \o SortedIds(S \ {m})

\* A mutant of list_pod_sandbox: the filter's state is not looked at.
list_pod_sandbox_any_state(filter) ==
    LET keep(id) ==
            /\ (filter.id = NoId \/ id = filter.id)
            /\ (DOMAIN filter.label_selector = {}
                \/ has_labels(filter.label_selector, sandboxes[id].labels))
    IN  SelectSeq(SortedIds(DOMAIN sandboxes), keep)

\* The ids of ListPodSandboxResponse.items, in the BTreeMap's key order.
list_pod_sandbox(filter) ==
    LET keep(id) ==
            /\ (filter.id = NoId \/ id = filter.id)
            /\ (~filter.state.some \/ filter.state.val = sandboxes[id].state)
            /\ (DOMAIN filter.label_selector = {}
                \/ has_labels(filter.label_selector, sandboxes[id].labels))
    IN  SelectSeq(SortedIds(DOMAIN sandboxes), keep)

\* ContainerFilter::default(): no id, no state, no sandbox id, no labels.
DefaultContainerFilter ==
    [id |-> NoId, state |-> None, pod_sandbox_id |-> NoId, label_selector |-> EmptyMap]

\* The ids of ListContainersResponse.containers; the HashMap gives them in no
\* particular order.
list_containers(filter) ==
    {id \in DOMAIN containers :
        /\ (filter.id = NoId \/ containers[id].id = filter.id)
        /\ (~filter.state.some \/ filter.state.val = containers[id].state)
        /\ (filter.pod_sandbox_id = NoId
            \/ containers[id].pod_sandbox_id = filter.pod_sandbox_id)
        /\ (DOMAIN filter.label_selector = {}
            \/ has_labels(filter.label_selector, containers[id].labels))}

(***************************************************************************)
(* Handler invocations in flight, the service's locks and the harness that *)
(* runs a WASI module.  tonic serves each request on its own task, so      *)
(* MaxTasks invocations run at once, each one statement at a time.         *)
(***************************************************************************)
MaxTasks == 2
Tasks == 1 .. MaxTasks
NoTask == 0

\* A task that serves no request: it holds nothing and stands nowhere.
Idle == [op |-> "", pc |-> "idle", status |-> "", handler |-> ""]

\* The four locks of CriRuntimeService (the fifth, pod_cidr, is taken alone).
LockNames == {"module_store", "sandboxes", "containers", "running_containers"}

\* tokio::sync::RwLock and Mutex: one writer or any number of readers.
Free == [writer |-> NoTask, readers |-> {}]

\* The slots for RuntimeContainer values: one per invocation, and one more for
\* a harness made outside any handler.
MaxHarnesses == MaxTasks + 1
Harnesses == 1 .. MaxHarnesses

\* A slot in which no RuntimeContainer has been constructed.
NoHarness == [sender |-> "none", task |-> "none", runs |-> 0, started |-> FALSE]

\* The slots for RuntimeFuture values, and a slot in which none has been made.
MaxFutures == 2
Futures == 1 .. MaxFutures
NoFuture ==
    [runner |-> "none", locked |-> FALSE, completed |-> FALSE, err |-> FALSE,
     waker |-> FALSE, poll |-> "none", wakes |-> 0, result |-> "none",
     output |-> "none"]

(***************************************************************************)
(* The state after CriRuntimeService::new.                                 *)
(***************************************************************************)
\* CriRuntimeService::new(dir, pod_cidr): empty registries, every lock free,
\* no handler in flight, the pod CIDR as given.
new(cidr) ==
    /\ sandboxes = EmptyMap
    /\ containers = EmptyMap
    /\ running_containers = EmptyMap
    /\ actors = {}
    /\ uuids = [sandboxes |-> 0, containers |-> 0]
    /\ modules = <<>>
    /\ runtime_modules = <<>>
    /\ pod_cidr = cidr
    /\ tasks = [t \in Tasks |-> Idle]
    /\ locks = [l \in LockNames |-> Free]
    /\ harness = [h \in Harnesses |-> NoHarness]
    /\ futures = [f \in Futures |-> NoFuture]
    /\ last = [op |-> "new", status |-> OK, ret |-> NoId, stopped |-> {}]

Init == new(None)

\* The record of one RPC: which handler ran, the status it ended with, the id
\* it returned, and the containers whose token had stop() invoked while it ran.
Respond(op, status, ret, stopped) ==
    last' = [op |-> op, status |-> status, ret |-> ret, stopped |-> stopped]

(***************************************************************************)
(* run_pod_sandbox.  dirs_ok is what tokio::fs::create_dir_all comes to    *)
(* for the request's log directory.                                        *)
(***************************************************************************)
\* The UserSandbox that run_pod_sandbox inserts.
NewUserSandbox(id, sandbox_conf, handler) ==
    [id |-> id,
     state |-> SandboxReady,
     labels |-> sandbox_conf.labels,
     runtime_handler |-> handler,
     running_containers |-> <<>>]

run_pod_sandbox(config, runtime_handler) ==
    LET handler == from_string(runtime_handler)
        id == new_v4(uuids.sandboxes)
        Fail(status) ==
            /\ Respond("run_pod_sandbox", status, NoId, {})
            /\ UNCHANGED <<sandboxes, containers, running_containers, actors, uuids>>
    IN  IF ~config.some THEN Fail(InvalidArgument)
        ELSE IF ~handler.some THEN Fail(InvalidArgument)
        ELSE \E dirs_ok \in BOOLEAN :
                 IF ~dirs_ok THEN Fail(IoError)
                 ELSE /\ uuids.sandboxes < MaxSandboxes
                      /\ sandboxes' = Insert(sandboxes, id,
                                             NewUserSandbox(id, config.val, handler.val))
                      /\ uuids' = [uuids EXCEPT !.sandboxes = id]
                      /\ Respond("run_pod_sandbox", OK, id, {})
                      /\ UNCHANGED <<containers, running_containers, actors>>

(***************************************************************************)
(* stop_pod_sandbox.  The loop drains the sandbox's running_containers and *)
(* builds one stop_container future per id; none of them is awaited, so    *)
(* none of them runs: a future does nothing until it is polled.            *)
(***************************************************************************)
\* A mutant of SandboxStopped: the state is flipped instead of set.
SandboxStopped_Flipped(sandbox) ==
    [sandbox EXCEPT !.running_containers = <<>>,
                    !.state = IF @ = SandboxReady THEN SandboxNotready ELSE SandboxReady]

SandboxStopped(sandbox) ==
    [sandbox EXCEPT !.running_containers = <<>>, !.state = SandboxNotready]

stop_pod_sandbox(id) ==
    IF id \notin DOMAIN sandboxes
    THEN /\ Respond("stop_pod_sandbox", NotFound, NoId, {})
         /\ UNCHANGED <<sandboxes, containers, running_containers, actors, uuids>>
    ELSE /\ sandboxes' = [sandboxes EXCEPT ![id] = SandboxStopped(sandboxes[id])]
         /\ Respond("stop_pod_sandbox", OK, NoId, {})
         /\ UNCHANGED <<containers, running_containers, actors, uuids>>

(***************************************************************************)
(* remove_pod_sandbox.  As in stop_pod_sandbox, the remove_container       *)
(* futures built by the loop are dropped without being awaited.            *)
(***************************************************************************)
\* A mutant of StillReady: the check of the sandbox's state is missing.
StillReady_Unchecked(sandbox) == FALSE

StillReady(sandbox) == sandbox.state = SandboxReady

remove_pod_sandbox(id) ==
    LET Fail(status) ==
            /\ Respond("remove_pod_sandbox", status, NoId, {})
            /\ UNCHANGED <<sandboxes, containers, running_containers, actors, uuids>>
    IN  IF id \notin DOMAIN sandboxes THEN Fail(NotFound)
        ELSE IF StillReady(sandboxes[id]) THEN Fail(FailedPrecondition)
        ELSE /\ sandboxes' = Remove(sandboxes, id)
             /\ Respond("remove_pod_sandbox", OK, NoId, {})
             /\ UNCHANGED <<containers, running_containers, actors, uuids>>

(***************************************************************************)
(* create_container.  dirs_ok is what the create_dir_all calls (container  *)
(* root directory, log path) come to.                                      *)
(***************************************************************************)
\* The UserContainer that create_container builds.
NewUserContainer(id, pod_sandbox_id, container_config) ==
    [id |-> id,
     pod_sandbox_id |-> pod_sandbox_id,
     state |-> ContainerCreated,
     image_ref |-> container_config.image.val,
     annotations |-> container_config.annotations,
     labels |-> container_config.labels]

\* A mutant of PushContainer: the id goes to the front of the list.
PushContainer_Front(sandbox, container_id) ==
    [sandbox EXCEPT !.running_containers = <<container_id>> \o @]

\* Vec::push of the container id on the sandbox's running_containers.
PushContainer(sandbox, container_id) ==
    [sandbox EXCEPT !.running_containers = Append(@, container_id)]

\* A mutant of create_container: the container is registered without looking
\* its sandbox up.
create_container_without_sandbox(pod_sandbox_id, config) ==
    LET id == new_v4(uuids.containers)
        container_config == [DefaultContainerConfig EXCEPT !.image = Some(WellFormedImage)]
    IN  /\ uuids.containers < MaxContainers
        /\ containers' = Insert(containers, id,
                                NewUserContainer(id, pod_sandbox_id, container_config))
        /\ uuids' = [uuids EXCEPT !.containers = id]
        /\ Respond("create_container", OK, id, {})
        /\ UNCHANGED <<sandboxes, running_containers, actors>>

create_container(pod_sandbox_id, config) ==
    LET container_config == unwrap_or_default(config, DefaultContainerConfig)
        id == new_v4(uuids.containers)
        Fail(status) ==
            /\ Respond("create_container", status, NoId, {})
            /\ UNCHANGED <<sandboxes, containers, running_containers, actors, uuids>>
    IN  IF ~container_config.image.some
        THEN Fail(Panic)                       \* container_config.image.as_ref().unwrap()
        ELSE \E dirs_ok \in BOOLEAN :
                 IF ~dirs_ok THEN Fail(IoError)
                 ELSE IF pod_sandbox_id \notin DOMAIN sandboxes THEN Fail(NotFound)
                 ELSE /\ uuids.containers < MaxContainers
                      /\ sandboxes' = [sandboxes EXCEPT ![pod_sandbox_id] =
                                           PushContainer(sandboxes[pod_sandbox_id], id)]
                      /\ containers' =
                             Insert(containers, id,
                                    NewUserContainer(id, pod_sandbox_id, container_config))
                      /\ uuids' = [uuids EXCEPT !.containers = id]
                      /\ Respond("create_container", OK, id, {})
                      /\ UNCHANGED <<running_containers, actors>>

(***************************************************************************)
(* The waSCC host.  wascc_run loads the actor (Actor::from_bytes), adds it *)
(* to the host (host::add_actor) and configures its capabilities           *)
(* (host::configure); each step can fail, the last one after the actor was *)
(* added.  wascc_stop removes the actor; its error is only logged.         *)
(***************************************************************************)
wascc_run(key, outcome) ==
    IF outcome \in {"ok", "configure_err"} THEN actors \cup {key} ELSE actors

wascc_stop(key) == actors \ {key}

WasccCancelationToken(key) == [kind |-> "Wascc", key |-> key]
WasiCancelationToken == [kind |-> "Wasi", key |-> ""]

(***************************************************************************)
(* start_container.  io_ok is what reading the module file comes to (for   *)
(* WASI, what WasiRuntime::new comes to); outcome is what wascc_run comes  *)
(* to.                                                                     *)
(***************************************************************************)
\* A mutant of actor_key: a container without the annotation gets a key anyway.
actor_key_or_default(annotations) ==
    IF ACTOR_KEY_ANNOTATION \in DOMAIN annotations
    THEN Some(annotations[ACTOR_KEY_ANNOTATION])
    ELSE Some("K0")

\* container.config.annotations.get(ACTOR_KEY_ANNOTATION)
actor_key(annotations) ==
    IF ACTOR_KEY_ANNOTATION \in DOMAIN annotations
    THEN Some(annotations[ACTOR_KEY_ANNOTATION])
    ELSE None

\* A mutant of start_container: neither the container nor its sandbox is
\* looked up before the module is launched.
start_container_without_lookup(id) ==
    /\ running_containers' = Insert(running_containers, id, WasiCancelationToken)
    /\ containers' = IF id \in DOMAIN containers
                     THEN [containers EXCEPT ![id].state = ContainerRunning]
                     ELSE containers
    /\ Respond("start_container", OK, NoId, {})
    /\ UNCHANGED <<sandboxes, actors, uuids>>

start_container(id) ==
    LET Fail(status) ==
            /\ Respond("start_container", status, NoId, {})
            /\ UNCHANGED <<sandboxes, containers, running_containers, actors, uuids>>
        Started(token) ==
            /\ running_containers' = Insert(running_containers, id, token)
            /\ containers' = [containers EXCEPT ![id].state = ContainerRunning]
            /\ Respond("start_container", OK, NoId, {})
            /\ UNCHANGED <<sandboxes, uuids>>
    IN  IF id \notin DOMAIN containers THEN Fail(NotFound)
        ELSE IF containers[id].pod_sandbox_id \notin DOMAIN sandboxes THEN Fail(NotFound)
        ELSE LET container == containers[id]
                 runtime == from_string(sandboxes[container.pod_sandbox_id].runtime_handler)
             IN  IF ~runtime.some THEN Fail(InvalidArgument)
                 ELSE IF ~try_from(container.image_ref).some
                 THEN Fail(Panic)               \* .expect("Failed to parse image_ref")
                 ELSE \E io_ok \in BOOLEAN :
                     IF runtime.val = "WASCC"
                     THEN IF ~io_ok THEN Fail(IoError)
                          ELSE IF ~actor_key(container.annotations).some
                          THEN Fail(InvalidArgument)
                          ELSE LET key == actor_key(container.annotations).val
                               IN  \E outcome \in WasccOutcomes :
                                       IF outcome # "ok"
                                       THEN /\ actors' = wascc_run(key, outcome)
                                            /\ Respond("start_container", Internal, NoId, {})
                                            /\ UNCHANGED <<sandboxes, containers,
                                                           running_containers, uuids>>
                                       ELSE /\ actors' = wascc_run(key, outcome)
                                            /\ Started(WasccCancelationToken(key))
                     ELSE IF ~io_ok
                          THEN Fail(Panic)      \* .expect("Creating runtime failed")
                          ELSE /\ Started(WasiCancelationToken)
                               /\ UNCHANGED actors

(***************************************************************************)
(* ContainerCancellationToken::stop and ::remove: the waSCC token stops    *)
(* the actor, the WASI token is todo!().                                   *)
(***************************************************************************)
TokenPanics(token) == token.kind = "Wasi"

(***************************************************************************)
(* stop_container.                                                         *)
(***************************************************************************)
stop_container(id) ==
    IF id \in DOMAIN running_containers
    THEN LET token == running_containers[id]
         IN  IF TokenPanics(token)
             THEN /\ Respond("stop_container", Panic, NoId, {id})
                  /\ UNCHANGED <<sandboxes, containers, running_containers, actors, uuids>>
             ELSE /\ actors' = wascc_stop(token.key)
                  /\ Respond("stop_container", OK, NoId, {id})
                  /\ UNCHANGED <<sandboxes, containers, running_containers, uuids>>
    ELSE /\ Respond("stop_container", OK, NoId, {})
         /\ UNCHANGED <<sandboxes, containers, running_containers, actors, uuids>>

(***************************************************************************)
(* remove_container.  What a panic leaves behind is what the handler had   *)
(* written before it: the lock guards are released by the unwinding.       *)
(***************************************************************************)
remove_container(id) ==
    LET has_token == id \in DOMAIN running_containers
        tokens == IF has_token THEN Remove(running_containers, id) ELSE running_containers
        host == IF has_token THEN wascc_stop(running_containers[id].key) ELSE actors
        Abort ==
            /\ Respond("remove_container", Panic, NoId, {})
            /\ UNCHANGED <<sandboxes, containers, uuids>>
    IN  IF has_token /\ TokenPanics(running_containers[id])
        THEN /\ Abort                             \* token.remove() is todo!()
             /\ UNCHANGED <<running_containers, actors>>
        ELSE /\ running_containers' = tokens
             /\ actors' = host
             /\ IF id \notin DOMAIN containers
                THEN Abort                        \* containers.get_mut(&id).unwrap()
                ELSE LET container == containers[id]
                         sid == container.pod_sandbox_id
                         pos == IF sid \in DOMAIN sandboxes
                                THEN Position(sandboxes[sid].running_containers,
                                              container.id)
                                ELSE 0
                     IN  IF sid \in DOMAIN sandboxes /\ pos = 0
                         THEN Abort               \* .position(..).unwrap()
                         ELSE /\ sandboxes' =
                                     IF sid \in DOMAIN sandboxes
                                     THEN [sandboxes EXCEPT ![sid].running_containers =
                                               VecRemove(@, pos)]
                                     ELSE sandboxes
                              /\ containers' = Remove(containers, id)
                              /\ Respond("remove_container", OK, NoId, {})
                              /\ UNCHANGED uuids

(***************************************************************************)
(* The service: any RPC, with any request, at any time.                    *)
(***************************************************************************)
Next ==
    \/ \E config \in SandboxConfigs, runtime_handler \in Handlers :
           run_pod_sandbox(config, runtime_handler) /\ UNCHANGED untouched
    \/ \E id \in SandboxIds : stop_pod_sandbox(id) /\ UNCHANGED untouched
    \/ \E id \in SandboxIds : remove_pod_sandbox(id) /\ UNCHANGED untouched
    \/ \E pod_sandbox_id \in SandboxIds, config \in ContainerConfigs :
           create_container(pod_sandbox_id, config) /\ UNCHANGED untouched
    \/ \E id \in ContainerIds : start_container(id) /\ UNCHANGED untouched
    \/ \E id \in ContainerIds : stop_container(id) /\ UNCHANGED untouched
    \/ \E id \in ContainerIds : remove_container(id) /\ UNCHANGED untouched

Spec == Init /\ [][Next]_vars

(***************************************************************************)
(* The listing RPCs, over registries whose sandboxes and containers carry  *)
(* labels.  A listing answers with what list_pod_sandbox or                *)
(* list_containers gives for the request's filter, or for the default      *)
(* filter when the request has none.                                       *)
(***************************************************************************)
ListPodSandbox(request_filter) ==
    LET filter == unwrap_or_default(request_filter, DefaultFilter)
    IN  /\ Respond("list_pod_sandbox", OK, list_pod_sandbox(filter), {})
        /\ UNCHANGED <<sandboxes, containers, running_containers, actors, uuids>>

ListContainers(request_filter) ==
    LET filter == unwrap_or_default(request_filter, DefaultContainerFilter)
    IN  /\ Respond("list_containers", OK, list_containers(filter), {})
        /\ UNCHANGED <<sandboxes, containers, running_containers, actors, uuids>>

\* The labels of sandboxes and containers, and the label selectors of filters.
LabelMaps ==
    {[k \in {"app"} |-> "web"],
     [k \in {"app", "tier"} |-> IF k = "app" THEN "web" ELSE "front"]}
LabelSelectors ==
    {EmptyMap, [k \in {"app"} |-> "db"],
     [k \in {"app", "tier"} |-> IF k = "app" THEN "web" ELSE "front"]}

LabelledSandboxConfigs == {Some([labels |-> labels]) : labels \in LabelMaps}
LabelledContainerConfigs ==
    {Some([image |-> Some(WellFormedImage), annotations |-> EmptyMap, labels |-> labels]) :
        labels \in LabelMaps}

\* ListPodSandboxRequest.filter and ListContainersRequest.filter.
PodSandboxFilters ==
    {None} \cup {Some([id |-> id, state |-> state, label_selector |-> label_selector]) :
                     id \in {NoId, 1},
                     state \in {None, Some(SandboxNotready)},
                     label_selector \in LabelSelectors}
ContainerFilters ==
    {None} \cup {Some([id |-> id, state |-> state, pod_sandbox_id |-> pod_sandbox_id,
                       label_selector |-> label_selector]) :
                     id \in {NoId, 1},
                     state \in {None, Some(ContainerRunning)},
                     pod_sandbox_id \in {NoId, 1},
                     label_selector \in LabelSelectors}

ListNext ==
    \/ \E config \in LabelledSandboxConfigs :
           run_pod_sandbox(config, "WASI") /\ UNCHANGED untouched
    \/ \E id \in SandboxIds : stop_pod_sandbox(id) /\ UNCHANGED untouched
    \/ \E pod_sandbox_id \in SandboxIds, config \in LabelledContainerConfigs :
           create_container(pod_sandbox_id, config) /\ UNCHANGED untouched
    \/ \E id \in ContainerIds : start_container(id) /\ UNCHANGED untouched
    \/ \E request_filter \in PodSandboxFilters :
           ListPodSandbox(request_filter) /\ UNCHANGED untouched
    \/ \E request_filter \in ContainerFilters :
           ListContainers(request_filter) /\ UNCHANGED untouched

ListSpec == Init /\ [][ListNext]_vars

(***************************************************************************)
(* The module store (src/src/store/mod.rs) and the image service's         *)
(* pull_image and list_images (src/src/server/image.rs).  A Module is its  *)
(* id and its size; a Reference is what try_from gives.                    *)
(***************************************************************************)
\* Module.size values: a size of the store's test, and half the range.
ModuleSizes == {1, 2 ^ (SizeBits - 1)}
\* The references pull is given.
References == {try_from(string).val : string \in {WellFormedImage}}
\* Module ids: an id of the store's test, and a reference string.
ModuleIds == {<<"1">>, WellFormedImage}
Modules == [id : ModuleIds, size : ModuleSizes]
\* What the steps of pull can come to: std::fs::create_dir_all, the path and
\* the reference as C strings, the Pull primitive, fs::metadata.
PullOutcomes ==
    {"ok", "create_dir_err", "invalid_path", "invalid_reference", "pull_err", "metadata_err"}

CannotFetchModuleMetadata == "CannotFetchModuleMetadata"
CannotPullModule == "CannotPullModule"
InvalidPullPath == "InvalidPullPath"
InvalidReference == "InvalidReference"

\* A mutant of whole: the reference without its registry.
whole_without_registry(reference) ==
    SubSeq(reference.whole, reference.slash + 1, Len(reference.whole))

\* Reference::whole
whole(reference) == reference.whole

\* The runtime service's state, which the store's operations do not touch.
runtime_vars == <<sandboxes, containers, running_containers, actors, uuids,
                  runtime_modules, pod_cidr, tasks, locks, harness, futures>>

add(module) ==
    /\ Len(modules) < MaxModules
    /\ modules' = Append(modules, module)
    /\ Respond("add", OK, NoId, {})
    /\ UNCHANGED runtime_vars

\* The position of the first module whose id is key, 0 when there is none.
ModulePosition(key) ==
    IF \E i \in 1..Len(modules) : modules[i].id = key
    THEN CHOOSE i \in 1..Len(modules) :
             modules[i].id = key /\ \A j \in 1..(i - 1) : modules[j].id # key
    ELSE 0

\* remove() that drops every entry with the id (Vec::retain) and returns the
\* first.
remove_every(key) ==
    LET i == ModulePosition(key)
    IN  IF i = 0
        THEN /\ Respond("remove", NotFound, NoId, {})
             /\ UNCHANGED <<modules, runtime_vars>>
        ELSE /\ modules' = SelectSeq(modules, LAMBDA module : module.id # key)
             /\ Respond("remove", OK, modules[i], {})
             /\ UNCHANGED runtime_vars

remove(key) ==
    LET i == ModulePosition(key)
    IN  IF i = 0
        THEN /\ Respond("remove", NotFound, NoId, {})
             /\ UNCHANGED <<modules, runtime_vars>>
        ELSE /\ modules' = VecRemove(modules, i)
             /\ Respond("remove", OK, modules[i], {})
             /\ UNCHANGED runtime_vars

\* What ModuleStore::pull comes to: its result and the catalog it leaves, given
\* what its steps come to and the length of the pulled file.
Pulled(reference, outcome, len) ==
    CASE outcome = "create_dir_err" -> [status |-> CannotPullModule, modules |-> modules]
      [] outcome = "invalid_path" -> [status |-> InvalidPullPath, modules |-> modules]
      [] outcome = "invalid_reference" -> [status |-> InvalidReference, modules |-> modules]
      [] outcome = "pull_err" -> [status |-> CannotPullModule, modules |-> modules]
      [] outcome = "metadata_err" ->
             [status |-> CannotFetchModuleMetadata, modules |-> modules]
      [] OTHER -> [status |-> OK,
                   modules |-> Append(modules, [id |-> whole(reference), size |-> len])]

pull(reference) ==
    \E outcome \in PullOutcomes, len \in ModuleSizes :
        LET result == Pulled(reference, outcome, len)
        IN  /\ result.status = OK => Len(modules) < MaxModules
            /\ modules' = result.modules
            /\ Respond("pull", result.status, NoId, {})
            /\ UNCHANGED runtime_vars

\* modules.iter().map(|i| i.size).sum() with overflow checks: None when a
\* partial sum leaves the type's range (the addition panics).
RECURSIVE checked_sum(_)
checked_sum(mods) ==
    IF mods = <<>> THEN Some(0)
    ELSE LET front == checked_sum(SubSeq(mods, 1, Len(mods) - 1))
         IN  IF ~front.some \/ front.val + mods[Len(mods)].size >= 2 ^ SizeBits
             THEN None
             ELSE Some(front.val + mods[Len(mods)].size)

\* The same sum without overflow checks: every addition wraps.
RECURSIVE wrapping_sum(_)
wrapping_sum(mods) ==
    IF mods = <<>> THEN 0
    ELSE (wrapping_sum(SubSeq(mods, 1, Len(mods) - 1)) + mods[Len(mods)].size)
             % (2 ^ SizeBits)

\* used_bytes: debug_assertions is whether the build checks integer overflow.
used_bytes ==
    \E debug_assertions \in BOOLEAN :
        /\ IF debug_assertions
           THEN IF checked_sum(modules).some
                THEN Respond("used_bytes", OK, checked_sum(modules).val, {})
                ELSE Respond("used_bytes", Panic, NoId, {})
           ELSE Respond("used_bytes", OK, wrapping_sum(modules), {})
        /\ UNCHANGED <<modules, runtime_vars>>

\* A mutant of CatalogLen: the distinct ids are counted.
CatalogLen_DistinctIds(mods) == Cardinality({mods[i].id : i \in 1..Len(mods)})

\* modules.len() as u64
CatalogLen(mods) == Len(mods)

used_inodes ==
    /\ Respond("used_inodes", OK, CatalogLen(modules), {})
    /\ UNCHANGED <<modules, runtime_vars>>

\* ImageService::pull_image: the request's image is unwrapped, parsed with
\* expect, and pulled (pull_module) with expect.
pull_image(image) ==
    LET Abort ==
            /\ Respond("pull_image", Panic, NoId, {})
            /\ UNCHANGED <<modules, runtime_vars>>
    IN  IF ~image.some THEN Abort                       \* image.unwrap()
        ELSE IF ~try_from(image.val).some THEN Abort    \* expect("Image ref is malformed")
        ELSE \E outcome \in PullOutcomes, len \in ModuleSizes :
                 LET result == Pulled(try_from(image.val).val, outcome, len)
                 IN  IF result.status # OK THEN Abort   \* expect("cannot pull module")
                     ELSE /\ Len(modules) < MaxModules
                          /\ modules' = result.modules
                          /\ Respond("pull_image", OK, image.val, {})
                          /\ UNCHANGED runtime_vars

\* ImageService::list_images: the catalog, as ModuleStore::list clones it.
list_images ==
    /\ Respond("list_images", OK, modules, {})
    /\ UNCHANGED <<modules, runtime_vars>>

StoreNext ==
    \/ \E module \in Modules : add(module)
    \/ \E key \in ModuleIds : remove(key)
    \/ \E reference \in References : pull(reference)
    \/ used_bytes
    \/ used_inodes
    \/ \E image \in Images : pull_image(image)
    \/ list_images

StoreSpec == Init /\ [][StoreNext]_vars

(***************************************************************************)
(* Reference (src/src/docker/reference.rs) on its own: every string of at  *)
(* most MaxRefLen characters is parsed, and the step records the string    *)
(* together with what try_from made of it.                                 *)
(***************************************************************************)
MaxRefLen == 5
RefChars == {"a", "/", ":"}
Strings == UNION {[1 .. n -> RefChars] : n \in 0 .. MaxRefLen}

\* Reference::registry: &whole[..slash]
registry(reference) == SubSeq(reference.whole, 1, reference.slash - 1)

\* repository() sliced from the slash itself: &whole[slash..colon]
repository_from_slash(reference) ==
    SubSeq(reference.whole, reference.slash, reference.colon - 1)

\* Reference::repository: &whole[slash + 1..colon]
repository(reference) ==
    SubSeq(reference.whole, reference.slash + 1, reference.colon - 1)

\* Reference::tag: &whole[colon + 1..]
tag(reference) ==
    SubSeq(reference.whole, reference.colon + 1, Len(reference.whole))

\* The unit error of TryFrom<String> for Reference.
Err == "Err"

\* Reference::try_from(string), as a step.
TryFrom(string) ==
    LET result == try_from(string)
    IN  /\ Respond("try_from", IF result = None THEN Err ELSE OK,
                   [string |-> string, result |-> result], {})
        /\ UNCHANGED <<modules, runtime_vars>>

ParseNext == \E string \in Strings : TryFrom(string)

ParseSpec == Init /\ [][ParseNext]_vars

(***************************************************************************)
(* update_runtime_config and the pod CIDR.  A CIDR string is the sequence  *)
(* of its characters; IpNet::from_str is modelled for IPv4 by what it      *)
(* does: four decimal octets, a '/', a prefix length of at most 32.        *)
(***************************************************************************)
DigitValue(ch) ==
    CASE ch = "0" -> 0 [] ch = "1" -> 1 [] ch = "2" -> 2 [] ch = "3" -> 3
      [] ch = "4" -> 4 [] ch = "5" -> 5 [] ch = "6" -> 6 [] ch = "7" -> 7
      [] ch = "8" -> 8 [] ch = "9" -> 9 [] OTHER -> -1

RECURSIVE Decimal(_)
Decimal(s) ==
    IF s = <<>> THEN 0
    ELSE 10 * Decimal(SubSeq(s, 1, Len(s) - 1)) + DigitValue(s[Len(s)])

\* A decimal number of one to three digits that is at most max.
ParseNumber(s, max) ==
    IF /\ Len(s) \in 1 .. 3
       /\ \A i \in 1 .. Len(s) : DigitValue(s[i]) >= 0
       /\ Decimal(s) <= max
    THEN Some(Decimal(s))
    ELSE None

\* str::split: the pieces of s between the occurrences of ch.
RECURSIVE Split(_, _)
Split(s, ch) ==
    LET at == Find(s, 1, ch)
    IN  IF at = 0
        THEN <<s>>
        ELSE <<SubSeq(s, 1, at - 1)>> \o Split(SubSeq(s, at + 1, Len(s)), ch)

IpNet_from_str(raw) ==
    LET halves == Split(raw, "/")
        octets == IF Len(halves) = 2 THEN Split(halves[1], ".") ELSE <<>>
    IN  IF /\ Len(halves) = 2
           /\ Len(octets) = 4
           /\ \A i \in 1 .. 4 : ParseNumber(octets[i], 255) # None
           /\ ParseNumber(halves[2], 32) # None
        THEN Some([addr |-> [i \in 1 .. 4 |-> ParseNumber(octets[i], 255).val],
                   prefix_len |-> ParseNumber(halves[2], 32).val])
        ELSE None

\* The pod CIDR strings a request may carry.
Cidr24 == <<"1", "9", "2", ".", "1", "6", "8", ".", "1", ".", "0", "/", "2", "4">>
Cidr8 == <<"1", "0", ".", "0", ".", "0", ".", "0", "/", "8">>
CidrLongPrefix == <<"1", "0", ".", "0", ".", "0", ".", "0", "/", "3", "3">>
CidrNoPrefix == <<"1", "0", ".", "0", ".", "0", ".", "0">>
CidrShortAddr == <<"1", "0", ".", "0", ".", "0", "/", "8">>
CidrBigOctet == <<"2", "5", "6", ".", "0", ".", "0", ".", "0", "/", "8">>
CidrWord == <<"n", "e", "t">>
PodCidrs ==
    {<<>>, Cidr24, Cidr8, CidrLongPrefix, CidrNoPrefix, CidrShortAddr,
     CidrBigOctet, CidrWord}

DefaultNetworkConfig == [pod_cidr |-> <<>>]
DefaultRuntimeConfig == [network_config |-> None]
RuntimeConfigs ==
    {None, Some(DefaultRuntimeConfig)}
        \cup {Some([network_config |-> Some([pod_cidr |-> raw])]) : raw \in PodCidrs}

\* The string the handler reads out of the request.
RawPodCidr(runtime_config) ==
    unwrap_or_default(
        unwrap_or_default(runtime_config, DefaultRuntimeConfig).network_config,
        DefaultNetworkConfig).pod_cidr

\* The handler with the parse error swallowed: the cell is cleared instead.
update_runtime_config_clearing(runtime_config) ==
    LET raw == RawPodCidr(runtime_config)
    IN  /\ pod_cidr' = IF raw = <<>> THEN None ELSE IpNet_from_str(raw)
        /\ Respond("update_runtime_config", OK, NoId, {})
        /\ UNCHANGED <<sandboxes, containers, running_containers, actors, uuids,
                       modules, runtime_modules, tasks, locks, harness, futures>>

update_runtime_config(runtime_config) ==
    LET raw == RawPodCidr(runtime_config)
        parsed == IpNet_from_str(raw)
    IN  /\ IF raw = <<>>
           THEN /\ pod_cidr' = None
                /\ Respond("update_runtime_config", OK, NoId, {})
           ELSE IF parsed = None
           THEN /\ Respond("update_runtime_config", InvalidArgument, NoId, {})
                /\ UNCHANGED pod_cidr
           ELSE /\ pod_cidr' = parsed
                /\ Respond("update_runtime_config", OK, NoId, {})
        /\ UNCHANGED <<sandboxes, containers, running_containers, actors, uuids,
                       modules, runtime_modules, tasks, locks, harness, futures>>

\* The service is constructed with a pod CIDR or without one.
ConfigInit == \E cidr \in {None, IpNet_from_str(Cidr8)} : new(cidr)

ConfigNext ==
    \/ \E runtime_config \in RuntimeConfigs : update_runtime_config(runtime_config)
    \/ \E config \in SandboxConfigs, runtime_handler \in Handlers :
           run_pod_sandbox(config, runtime_handler) /\ UNCHANGED untouched
    \/ \E id \in SandboxIds : stop_pod_sandbox(id) /\ UNCHANGED untouched
    \/ \E id \in SandboxIds : remove_pod_sandbox(id) /\ UNCHANGED untouched

ConfigSpec == ConfigInit /\ [][ConfigNext]_vars

(***************************************************************************)
(* RuntimeContainer (runtime.rs 1595-1622).  new() makes a channel and     *)
(* spawns a task that waits on the receiver; start() sends the signal and  *)
(* gives the task's handle away as the token; the task, once it has the    *)
(* signal, hands rt.run() to the blocking pool and waits for it there.     *)
(* sender: "live" (held by the RuntimeContainer), "sent" (signal queued,   *)
(* sender gone with self), "dropped" (gone without a signal).              *)
(* task: "waiting" (in recv), "spawned" (closure queued on the blocking    *)
(* pool), "running" (inside rt.run()), "finished", "panicked".             *)
(***************************************************************************)
\* What the registries and the history hold: no step of this part writes them.
data_vars ==
    <<sandboxes, containers, running_containers, actors, uuids, modules,
      runtime_modules, pod_cidr, futures, last>>

\* RuntimeContainer::new(rt)
Constructed == [sender |-> "live", task |-> "waiting", runs |-> 0, started |-> FALSE]

\* start() that calls rt.run() itself instead of signalling the task.
Started_Inline(h) ==
    [h EXCEPT !.sender = "sent", !.task = "running", !.runs = @ + 1,
              !.started = TRUE]

\* RuntimeContainer::start(self): the signal is queued, self is consumed.
Started(h) == [h EXCEPT !.sender = "sent", !.started = TRUE]

\* A RuntimeContainer that goes out of scope: its sender closes the channel.
Dropped(h) == [h EXCEPT !.sender = "dropped"]

\* A task that takes the closing of the channel for the signal.
Received_Or_Closed(h) == [h EXCEPT !.task = "spawned"]

\* receiver.recv().await.unwrap(): the signal, or a panic on a closed channel.
Received(h) ==
    [h EXCEPT !.task = IF h.sender = "sent" THEN "spawned" ELSE "panicked"]

RuntimeContainer_new(h) ==
    /\ harness[h] = NoHarness
    /\ harness' = [harness EXCEPT ![h] = Constructed]
    /\ UNCHANGED <<tasks, locks, data_vars>>

RuntimeContainer_start(h) ==
    /\ harness[h].sender = "live"
    /\ harness' = [harness EXCEPT ![h] = Started(harness[h])]
    /\ UNCHANGED <<tasks, locks, data_vars>>

RuntimeContainer_drop(h) ==
    /\ harness[h].sender = "live"
    /\ harness' = [harness EXCEPT ![h] = Dropped(harness[h])]
    /\ UNCHANGED <<tasks, locks, data_vars>>

\* The spawned task leaves recv().
recv(h) ==
    /\ harness[h].task = "waiting"
    /\ harness[h].sender \in {"sent", "dropped"}
    /\ harness' = [harness EXCEPT ![h] = Received(harness[h])]
    /\ UNCHANGED <<tasks, locks, data_vars>>

\* A thread of the blocking pool takes the closure and calls rt.run().
run(h) ==
    /\ harness[h].task = "spawned"
    /\ harness' = [harness EXCEPT ![h].task = "running", ![h].runs = @ + 1]
    /\ UNCHANGED <<tasks, locks, data_vars>>

\* rt.run() returns (the module ends, or fails and the error is logged).
run_returns(h) ==
    /\ harness[h].task = "running"
    /\ harness' = [harness EXCEPT ![h].task = "finished"]
    /\ UNCHANGED <<tasks, locks, data_vars>>

HarnessTask(h) == recv(h) \/ run(h) \/ run_returns(h)

HarnessNext ==
    \E h \in Harnesses :
        \/ RuntimeContainer_new(h)
        \/ RuntimeContainer_start(h)
        \/ RuntimeContainer_drop(h)
        \/ HarnessTask(h)

HarnessSpec == Init /\ [][HarnessNext]_vars

(***************************************************************************)
(* The handlers one statement at a time.  A task stands at the statement   *)
(* it executes next; a statement that takes a lock can be executed only    *)
(* when the lock is granted.  What a lookup finds, and how blocking work   *)
(* ends, is the request's and the environment's choice.  Guards are        *)
(* released when the handler returns or panics.                            *)
(***************************************************************************)
Operations ==
    {"create_container", "start_container", "stop_container",
     "remove_container", "stop_pod_sandbox", "remove_pod_sandbox"}

\* The first statement of each handler that can wait or fail.
FirstStatement(op) ==
    CASE op = "create_container" -> "UserContainer"
      [] op = "start_container" -> "containers.write"
      [] op = "stop_container" -> "running_containers.read"
      [] op = "remove_container" -> "running_containers.write"
      [] op = "stop_pod_sandbox" -> "sandboxes.write"
      [] op = "remove_pod_sandbox" -> "sandboxes.write"

\* The lock a task standing at pc asks for, and how (NoLock: none).
NoLock == [lock |-> "", write |-> FALSE]
Requested(pc) ==
    CASE pc = "module_store.lock" -> [lock |-> "module_store", write |-> TRUE]
      [] pc = "sandboxes.write" -> [lock |-> "sandboxes", write |-> TRUE]
      [] pc = "sandboxes.read" -> [lock |-> "sandboxes", write |-> FALSE]
      [] pc = "containers.write" -> [lock |-> "containers", write |-> TRUE]
      [] pc = "running_containers.write"
            -> [lock |-> "running_containers", write |-> TRUE]
      [] pc = "running_containers.read"
            -> [lock |-> "running_containers", write |-> FALSE]
      [] OTHER -> NoLock

\* The statements at which a handler awaits work done on the blocking pool.
BlockingWork == {"create_dir_all", "fs::read", "spawn_blocking"}

Holds(t) == {l \in LockNames : locks[l].writer = t \/ t \in locks[l].readers}

\* write(): nobody holds the lock; read(): no writer holds it.
Granted(request) ==
    /\ locks[request.lock].writer = NoTask
    /\ request.write => locks[request.lock].readers = {}

At(t, op, pc) == tasks[t].op = op /\ tasks[t].pc = pc

\* The task takes the lock it stands at and goes on to pc.
Acquire(t, pc) ==
    LET request == Requested(tasks[t].pc)
    IN  /\ locks' = IF request.write
                    THEN [locks EXCEPT ![request.lock].writer = t]
                    ELSE [locks EXCEPT ![request.lock].readers = @ \cup {t}]
        /\ tasks' = [tasks EXCEPT ![t].pc = pc]

Goto(t, pc) ==
    /\ tasks' = [tasks EXCEPT ![t].pc = pc]
    /\ UNCHANGED locks

\* The handler ends (a response, or a panic that unwinds): its guards drop.
Return(t, status) ==
    /\ tasks' = [tasks EXCEPT ![t].pc = "returned", ![t].status = status]
    /\ locks' = [l \in LockNames |->
                    [writer |-> IF locks[l].writer = t THEN NoTask
                                ELSE locks[l].writer,
                     readers |-> locks[l].readers \ {t}]]

\* A request arrives and tonic gives it a task.
Begin(t, op) ==
    /\ tasks[t] = Idle
    /\ tasks' = [tasks EXCEPT ![t] = [op |-> op, pc |-> FirstStatement(op),
                                      status |-> "", handler |-> ""]]
    /\ UNCHANGED <<locks, harness, data_vars>>

\* create_container, lines 451-460: image.as_ref().unwrap()
create_container_UserContainer(t) ==
    /\ At(t, "create_container", "UserContainer")
    /\ \E image \in BOOLEAN :
           IF image THEN Goto(t, "module_store.lock") ELSE Return(t, Panic)
    /\ UNCHANGED <<harness, data_vars>>

\* lines 463-469: the guard is a temporary, gone when the path is built.
create_container_root_dir(t) ==
    /\ At(t, "create_container", "module_store.lock")
    /\ Granted(Requested("module_store.lock"))
    /\ Goto(t, "create_dir_all")
    /\ UNCHANGED <<harness, data_vars>>

\* lines 470-493: tokio::fs::create_dir_all(..).await?
create_container_create_dir_all(t) ==
    /\ At(t, "create_container", "create_dir_all")
    /\ \E dirs_ok \in BOOLEAN :
           IF dirs_ok THEN Goto(t, "sandboxes.write") ELSE Return(t, IoError)
    /\ UNCHANGED <<harness, data_vars>>

\* lines 505-515: sandboxes.write(), get_mut(..).ok_or_else(..)?, push
create_container_push(t) ==
    /\ At(t, "create_container", "sandboxes.write")
    /\ Granted(Requested("sandboxes.write"))
    /\ \E found \in BOOLEAN :
           IF found THEN Acquire(t, "containers.write") ELSE Return(t, NotFound)
    /\ UNCHANGED <<harness, data_vars>>

\* lines 516-523: containers.write(), insert, the response
create_container_insert(t) ==
    /\ At(t, "create_container", "containers.write")
    /\ Granted(Requested("containers.write"))
    /\ Return(t, OK)
    /\ UNCHANGED <<harness, data_vars>>

create_container_step(t) ==
    \/ create_container_UserContainer(t)
    \/ create_container_root_dir(t)
    \/ create_container_create_dir_all(t)
    \/ create_container_push(t)
    \/ create_container_insert(t)

\* start_container, lines 531-536: containers.write(), get_mut(..)?
start_container_get_container(t) ==
    /\ At(t, "start_container", "containers.write")
    /\ Granted(Requested("containers.write"))
    /\ \E found \in BOOLEAN :
           IF found THEN Acquire(t, "sandboxes.read") ELSE Return(t, NotFound)
    /\ UNCHANGED <<harness, data_vars>>

\* The handler strings a registered sandbox can carry: run_pod_sandbox stores
\* handler.to_string() of the handler it has parsed.
StoredHandlers == {from_string(s).val : s \in {h \in Handlers : from_string(h) # None}}

\* lines 537-544: sandboxes.read(), get(..)?, RuntimeHandler::from_string(..)?
start_container_get_sandbox(t) ==
    /\ At(t, "start_container", "sandboxes.read")
    /\ Granted(Requested("sandboxes.read"))
    /\ \E found \in BOOLEAN, runtime_handler \in StoredHandlers :
           IF ~found THEN Return(t, NotFound)
           ELSE IF from_string(runtime_handler) = None
           THEN Return(t, InvalidArgument)
           ELSE /\ locks' = [locks EXCEPT !["sandboxes"].readers = @ \cup {t}]
                /\ tasks' = [tasks EXCEPT
                                ![t].pc = "module_store.lock",
                                ![t].handler = from_string(runtime_handler).val]
    /\ UNCHANGED <<harness, data_vars>>

\* lines 546-556: module_store.lock(), Reference::try_from(..).expect(..)
start_container_module_path(t) ==
    /\ At(t, "start_container", "module_store.lock")
    /\ Granted(Requested("module_store.lock"))
    /\ \E image_ref \in {WellFormedImage, MalformedImage} :
           IF try_from(image_ref) = None THEN Return(t, Panic)
           ELSE Acquire(t, IF tasks[t].handler = "WASCC"
                           THEN "fs::read"
                           ELSE "spawn_blocking")
    /\ UNCHANGED <<harness, data_vars>>

\* lines 567-577 (WASCC): tokio::fs::read(module_path).await?, the actor key,
\* wascc_run_http
start_container_wascc(t) ==
    /\ At(t, "start_container", "fs::read")
    /\ \E outcome \in {OK, IoError, InvalidArgument, Internal} :
           IF outcome = OK
           THEN Goto(t, "running_containers.write")
           ELSE Return(t, outcome)
    /\ UNCHANGED <<harness, data_vars>>

\* lines 584-599 (WASI): spawn_blocking(WasiRuntime::new).await and its two
\* expects
start_container_wasi(t) ==
    /\ At(t, "start_container", "spawn_blocking")
    /\ \E created \in BOOLEAN :
           IF created
           THEN Goto(t, "RuntimeContainer::new")
           ELSE Return(t, Panic)
    /\ UNCHANGED <<harness, data_vars>>

\* line 601, first half: RuntimeContainer::new(runtime)
start_container_new(t) ==
    /\ At(t, "start_container", "RuntimeContainer::new")
    /\ harness' = [harness EXCEPT ![t] = Constructed]
    /\ Goto(t, "RuntimeContainer::start")
    /\ UNCHANGED data_vars

\* line 601, second half: .start()
start_container_start(t) ==
    /\ At(t, "start_container", "RuntimeContainer::start")
    /\ harness' = [harness EXCEPT ![t] = Started(harness[t])]
    /\ Goto(t, "running_containers.write")
    /\ UNCHANGED data_vars

\* lines 578-582 and 602-607: running_containers.write(), insert, the state,
\* the response
start_container_insert(t) ==
    /\ At(t, "start_container", "running_containers.write")
    /\ Granted(Requested("running_containers.write"))
    /\ Return(t, OK)
    /\ UNCHANGED <<harness, data_vars>>

start_container_step(t) ==
    \/ start_container_get_container(t)
    \/ start_container_get_sandbox(t)
    \/ start_container_module_path(t)
    \/ start_container_wascc(t)
    \/ start_container_wasi(t)
    \/ start_container_new(t)
    \/ start_container_start(t)
    \/ start_container_insert(t)

\* The running-set entry a handler finds for its container.
Tokens == {"none", "WasccCancelationToken", "WasiCancelationToken"}

\* stop_container, lines 614-618: running_containers.read(), token.stop()
stop_container_step(t) ==
    /\ At(t, "stop_container", "running_containers.read")
    /\ Granted(Requested("running_containers.read"))
    /\ \E token \in Tokens :
           Return(t, IF token = "WasiCancelationToken" THEN Panic ELSE OK)
    /\ UNCHANGED <<harness, data_vars>>

\* remove_container, lines 625-636: running_containers.write(), token.remove()
remove_container_token(t) ==
    /\ At(t, "remove_container", "running_containers.write")
    /\ Granted(Requested("running_containers.write"))
    /\ \E token \in Tokens :
           IF token = "WasiCancelationToken"
           THEN Return(t, Panic)
           ELSE Acquire(t, "containers.write")
    /\ UNCHANGED <<harness, data_vars>>

\* lines 638-639: containers.write(), get_mut(&id).unwrap()
remove_container_get_container(t) ==
    /\ At(t, "remove_container", "containers.write")
    /\ Granted(Requested("containers.write"))
    /\ \E found \in BOOLEAN :
           IF found THEN Acquire(t, "sandboxes.write") ELSE Return(t, Panic)
    /\ UNCHANGED <<harness, data_vars>>

\* lines 641-654: sandboxes.write(), position(..).unwrap(), the removals
remove_container_remove(t) ==
    /\ At(t, "remove_container", "sandboxes.write")
    /\ Granted(Requested("sandboxes.write"))
    /\ \E listed \in BOOLEAN : Return(t, IF listed THEN OK ELSE Panic)
    /\ UNCHANGED <<harness, data_vars>>

remove_container_step(t) ==
    \/ remove_container_token(t)
    \/ remove_container_get_container(t)
    \/ remove_container_remove(t)

\* stop_pod_sandbox, lines 344-363: sandboxes.write() and the whole body (the
\* stop_container futures it makes are never polled)
stop_pod_sandbox_step(t) ==
    /\ At(t, "stop_pod_sandbox", "sandboxes.write")
    /\ Granted(Requested("sandboxes.write"))
    /\ \E found \in BOOLEAN : Return(t, IF found THEN OK ELSE NotFound)
    /\ UNCHANGED <<harness, data_vars>>

\* remove_pod_sandbox, lines 374-401: sandboxes.write() and the whole body
remove_pod_sandbox_step(t) ==
    /\ At(t, "remove_pod_sandbox", "sandboxes.write")
    /\ Granted(Requested("sandboxes.write"))
    /\ \E status \in {OK, NotFound, FailedPrecondition} : Return(t, status)
    /\ UNCHANGED <<harness, data_vars>>

\* One statement of the handler that task t runs.
Step(t) ==
    \/ create_container_step(t)
    \/ start_container_step(t)
    \/ stop_container_step(t)
    \/ remove_container_step(t)
    \/ stop_pod_sandbox_step(t)
    \/ remove_pod_sandbox_step(t)

TaskNext ==
    \/ \E t \in Tasks, op \in Operations : Begin(t, op)
    \/ \E t \in Tasks : Step(t)
    \/ \E t \in Tasks : HarnessTask(t)

TaskSpec == Init /\ [][TaskNext]_vars

\* Only start_container requests arrive.
WasiNext ==
    \/ \E t \in Tasks : Begin(t, "start_container")
    \/ \E t \in Tasks : start_container_step(t)
    \/ \E t \in Tasks : HarnessTask(t)

\* The tokio scheduler polls every task that can make progress, and the
\* blocking pool takes every closure queued on it; nothing makes rt.run()
\* return.
WasiFairSpec ==
    /\ Init
    /\ [][WasiNext]_vars
    /\ \A t \in Tasks :
           /\ WF_vars(start_container_step(t))
           /\ WF_vars(recv(t))
           /\ WF_vars(run(t))

(***************************************************************************)
(* wascc_run_http (src/src/wasm/wascc.rs 87-107) on its own: the           *)
(* environment of a container and its actor key go in, and the step        *)
(* records the capability configuration that reaches host::configure.      *)
(***************************************************************************)
HTTP_CAPABILITY == "wascc:http_server"

\* EnvVars: the maps from some of the keys to values.
EnvKeys == {"PORT", "HOME"}
EnvValues == {"80", "8080"}
EnvVars == UNION {[keys -> EnvValues] : keys \in SUBSET EnvKeys}
ActorKeys == {"K1", "K2"}

\* lines 91-97: the map with the one entry PORT, "80" when env has none.  The
\* function builds it and never reads it again.
httpenv(env) ==
    [k \in {"PORT"} |-> IF "PORT" \in DOMAIN env THEN env["PORT"] ELSE "80"]

\* lines 102-105: the capabilities handed to wascc_run.
Capabilities(env) == <<[name |-> HTTP_CAPABILITY, env |-> env]>>

\* wascc_run_http(data, env, key); outcome is what wascc_run comes to.  What
\* host::configure was called with is recorded when the call was reached.
wascc_run_http(env, key) ==
    \E outcome \in WasccOutcomes :
        /\ actors' = wascc_run(key, outcome)
        /\ Respond("wascc_run_http",
                   IF outcome = "ok" THEN OK ELSE Internal,
                   [key |-> key,
                    env |-> env,
                    configure |-> IF outcome \in {"ok", "configure_err"}
                                  THEN Some(Capabilities(env)[1])
                                  ELSE None],
                   {})
        /\ UNCHANGED <<sandboxes, containers, running_containers, uuids, untouched>>

\* wascc_stop(key), as a step.
stop_actor(key) ==
    /\ actors' = wascc_stop(key)
    /\ Respond("wascc_stop", OK, NoId, {})
    /\ UNCHANGED <<sandboxes, containers, running_containers, uuids, untouched>>

WasccNext ==
    \/ \E env \in EnvVars, key \in ActorKeys : wascc_run_http(env, key)
    \/ \E key \in ActorKeys : stop_actor(key)

WasccSpec == Init /\ [][WasccNext]_vars

(***************************************************************************)
(* RuntimeFuture (src/src/runtime/future.rs).  One std::sync::Mutex guards *)
(* RuntimeState {completed, err, rt, waker}.  new() spawns the runner      *)
(* thread, which locks the state, calls rt.run(), records the error, sets  *)
(* completed, wakes the stored waker and only then lets go of the lock.    *)
(* poll() and output() lock the state for the length of their bodies; the  *)
(* borrow rules keep the two from running at once on one future.           *)
(* runner: "spawned" (before lock()), "running" (holds the lock, inside    *)
(* rt.run()), "done".  poll: "unpolled", "locking" (inside poll, at        *)
(* lock()), "pending" (returned Pending), "woken", "ready".  output:       *)
(* "idle", "locking" (inside output(), at lock()), "returned".             *)
(***************************************************************************)
\* What stands outside the futures.
beside_futures ==
    <<sandboxes, containers, running_containers, actors, uuids, modules,
      runtime_modules, pod_cidr, tasks, locks, harness, last>>

\* RuntimeFuture::new(rt)
NewFuture ==
    [runner |-> "spawned", locked |-> FALSE, completed |-> FALSE, err |-> FALSE,
     waker |-> FALSE, poll |-> "unpolled", wakes |-> 0, result |-> "none",
     output |-> "idle"]

\* A runner that sets completed and forgets the waker.
Completed_WithoutWake(future, err) ==
    [future EXCEPT !.runner = "done", !.locked = FALSE, !.completed = TRUE,
                   !.err = err]

\* lines 60-72: the match on rt.run(), completed = true, waker.take() and
\* wake(); the guard drops as the closure ends.
Completed(future, err) ==
    [future EXCEPT !.runner = "done", !.locked = FALSE, !.completed = TRUE,
                   !.err = err, !.waker = FALSE,
                   !.wakes = IF future.waker THEN @ + 1 ELSE @,
                   !.poll = IF future.waker THEN "woken" ELSE @]

\* lines 28-42: the body of poll, run with the lock held.  output_ok is what
\* rt.output() comes to.
Polled(future, output_ok) ==
    IF future.completed
    THEN [future EXCEPT !.poll = "ready",
                        !.result = IF future.err THEN "runtime error"
                                   ELSE IF output_ok THEN "output"
                                   ELSE "output error"]
    ELSE [future EXCEPT !.poll = "pending", !.waker = TRUE]

RuntimeFuture_new(f) ==
    /\ futures[f] = NoFuture
    /\ futures' = [futures EXCEPT ![f] = NewFuture]
    /\ UNCHANGED beside_futures

\* line 57: the runner thread takes the lock.
runner_lock(f) ==
    /\ futures[f].runner = "spawned"
    /\ ~futures[f].locked
    /\ futures' = [futures EXCEPT ![f].runner = "running", ![f].locked = TRUE]
    /\ UNCHANGED beside_futures

\* lines 60-73: rt.run() returns and the runner finishes.
runner_completes(f) ==
    /\ futures[f].runner = "running"
    /\ \E err \in BOOLEAN :
           futures' = [futures EXCEPT ![f] = Completed(futures[f], err)]
    /\ UNCHANGED beside_futures

\* The executor polls the future: first when it is awaited, then when woken.
poll_begin(f) ==
    /\ futures[f].poll \in {"unpolled", "woken"}
    /\ futures[f].output # "locking"
    /\ futures' = [futures EXCEPT ![f].poll = "locking"]
    /\ UNCHANGED beside_futures

\* poll gets the lock, runs its body and returns.
poll(f) ==
    /\ futures[f].poll = "locking"
    /\ ~futures[f].locked
    /\ \E output_ok \in BOOLEAN :
           futures' = [futures EXCEPT ![f] = Polled(futures[f], output_ok)]
    /\ UNCHANGED beside_futures

\* output() is called through a shared borrow: before the future is handed
\* to .await, which holds it until it has resolved, or after.
output_begin(f) ==
    /\ futures[f].output \in {"idle", "returned"}
    /\ futures[f].poll \in {"unpolled", "ready"}
    /\ futures' = [futures EXCEPT ![f].output = "locking"]
    /\ UNCHANGED beside_futures

\* line 83: output gets the lock, opens the readers and returns.
output(f) ==
    /\ futures[f].output = "locking"
    /\ ~futures[f].locked
    /\ futures' = [futures EXCEPT ![f].output = "returned"]
    /\ UNCHANGED beside_futures

FutureStep(f) ==
    \/ RuntimeFuture_new(f)
    \/ runner_lock(f)
    \/ runner_completes(f)
    \/ poll_begin(f)
    \/ poll(f)
    \/ output_begin(f)
    \/ output(f)

FutureNext == \E f \in Futures : FutureStep(f)

FutureSpec == Init /\ [][FutureNext]_vars

\* The runner thread is scheduled, rt.run() terminates, and the executor
\* polls a future that was woken and lets a poll that can go on go on.
FutureFairSpec ==
    /\ Init
    /\ [][FutureNext]_vars
    /\ \A f \in Futures :
           /\ WF_vars(runner_lock(f))
           /\ WF_vars(runner_completes(f))
           /\ WF_vars(poll_begin(f))
           /\ WF_vars(poll(f))

(***************************************************************************)
(* The claims.  A step of a handler h with request r is a step that        *)
(* satisfies h(r); what held before it is read unprimed, what holds after  *)
(* it primed.                                                              *)
(***************************************************************************)

\* C1: for every sandbox s that is in the sandbox registry with state Ready,
\* remove_pod_sandbox(s) fails with FailedPrecondition and leaves the sandbox
\* registry, the container registry and the running-set unchanged (s is still
\* present and still Ready).
C1_ReadySandboxIsNotRemoved ==
    [][\A s \in SandboxIds :
           (/\ s \in DOMAIN sandboxes
            /\ sandboxes[s].state = SandboxReady
            /\ remove_pod_sandbox(s))
           => /\ last'.status = FailedPrecondition
              /\ UNCHANGED <<sandboxes, containers, running_containers>>
              /\ s \in DOMAIN sandboxes'
              /\ sandboxes'[s].state = SandboxReady]_vars

\* A Ready sandbox holding a container was asked to go and was refused.
C1_Witness ==
    /\ last.op = "remove_pod_sandbox"
    /\ last.status = FailedPrecondition
    /\ \E s \in DOMAIN sandboxes :
           /\ sandboxes[s].state = SandboxReady
           /\ sandboxes[s].running_containers # <<>>

C3_EveryContainerHasItsSandbox ==
    \A c \in DOMAIN containers : containers[c].pod_sandbox_id \in DOMAIN sandboxes

\* C4: between RPCs every container of the registry whose state is Running has
\* an entry in the running-set keyed by its id.
C4_RunningContainersHaveTokens ==
    \A c \in DOMAIN containers :
        containers[c].state = ContainerRunning => c \in DOMAIN running_containers

\* C5: after stop_container(c) returns success for a container c that was in
\* state Running, the state of c in the container registry is Exited.
C5_StoppedContainerIsExited ==
    [][\A c \in ContainerIds :
           (/\ c \in DOMAIN containers
            /\ containers[c].state = ContainerRunning
            /\ stop_container(c)
            /\ last'.status = OK)
           => /\ c \in DOMAIN containers'
              /\ containers'[c].state = ContainerExited]_vars

\* C6: stop_container returns success for every container id in every reachable
\* state: without a running-set entry it leaves all state unchanged, with one it
\* invokes stop() on the token and still returns success.
C6_StopContainerAlwaysSucceeds ==
    [][\A c \in ContainerIds :
           stop_container(c)
           => /\ last'.status = OK
              /\ c \notin DOMAIN running_containers
                 => UNCHANGED <<sandboxes, containers, running_containers, actors>>
              /\ c \in DOMAIN running_containers => c \in last'.stopped]_vars

\* C7: remove_container(c) for a container c of the registry returns success,
\* after which c is absent from the registry, has no running-set entry and is
\* absent from its sandbox's running_containers; every other container, every
\* other running-set entry and the state of every sandbox are unchanged.
C7_RemoveContainerRemoves ==
    [][\A c \in ContainerIds :
           (c \in DOMAIN containers /\ remove_container(c))
           => /\ last'.status = OK
              /\ containers' = Remove(containers, c)
              /\ running_containers' = Remove(running_containers, c)
              /\ DOMAIN sandboxes' = DOMAIN sandboxes
              /\ \A s \in DOMAIN sandboxes :
                     /\ sandboxes'[s].state = sandboxes[s].state
                     /\ Position(sandboxes'[s].running_containers, c) = 0]_vars

\* How often x occurs in the sequence s.
Occurrences(s, x) == Cardinality({i \in 1..Len(s) : s[i] = x})

\* What a successful create_container(s, ..) step did, as C8 states it.
C8_Created(s) ==
    /\ last'.status = OK
    /\ last'.ret \notin DOMAIN containers
    /\ last'.ret \in DOMAIN containers'
    /\ Cardinality(DOMAIN containers') = Cardinality(DOMAIN containers) + 1
    /\ containers'[last'.ret].state = ContainerCreated
    /\ containers'[last'.ret].pod_sandbox_id = s
    /\ sandboxes'[s].running_containers =
           Append(sandboxes[s].running_containers, last'.ret)

\* C8 as stated: create_container for a sandbox s of the registry, with
\* config.image present, returns an id that was not a key of the container
\* registry, grows the registry by exactly one, stores the new container with
\* state Created and pod_sandbox_id = s, and appends the id to the end of s's
\* running_containers.
C8_CreateContainerAlwaysInserts ==
    [][\A s \in SandboxIds, config \in ContainerConfigs :
           (/\ s \in DOMAIN sandboxes
            /\ config.some
            /\ config.val.image.some
            /\ create_container(s, config))
           => C8_Created(s)]_vars

\* C8 as amended: create_container for a sandbox s of the registry, with
\* config.image present, either fails with the I/O error of creating its
\* directories and leaves both registries and the running-set unchanged, or
\* does all that C8 states.
C8_CreateContainerInsertsUnlessIoFails ==
    [][\A s \in SandboxIds, config \in ContainerConfigs :
           (/\ s \in DOMAIN sandboxes
            /\ config.some
            /\ config.val.image.some
            /\ create_container(s, config))
           => \/ /\ last'.status = IoError
                 /\ UNCHANGED <<sandboxes, containers, running_containers>>
              \/ C8_Created(s)]_vars

\* A second container was created in a sandbox that already held one.
C8_Witness ==
    /\ last.op = "create_container"
    /\ last.status = OK
    /\ last.ret \in DOMAIN containers
    /\ containers[last.ret].pod_sandbox_id \in DOMAIN sandboxes
    /\ Len(sandboxes[containers[last.ret].pod_sandbox_id].running_containers) = 2

\* What a successful run_pod_sandbox step with handler h did, as C9 states it.
C9_Ran(h) ==
    /\ last'.status = OK
    /\ last'.ret \notin DOMAIN sandboxes
    /\ DOMAIN sandboxes' = DOMAIN sandboxes \cup {last'.ret}
    /\ \A s \in DOMAIN sandboxes : sandboxes'[s] = sandboxes[s]
    /\ sandboxes'[last'.ret].state = SandboxReady
    /\ h = "" => sandboxes'[last'.ret].runtime_handler = "WASI"
    /\ Occurrences(list_pod_sandbox(DefaultFilter)', last'.ret) = 1

\* C9 as stated: run_pod_sandbox with a config and a runtime handler in
\* {"", "WASI", "WASCC"} inserts exactly one new sandbox in state Ready under
\* an id not previously in the registry, returns that id, stores runtime_handler
\* WASI when the requested handler is the empty string, and a following
\* unfiltered list_pod_sandbox contains that id exactly once.
C9_RunPodSandboxAlwaysInserts ==
    [][\A config \in SandboxConfigs, h \in Handlers :
           (/\ config.some
            /\ h \in {"", "WASI", "WASCC"}
            /\ run_pod_sandbox(config, h))
           => C9_Ran(h)]_vars

\* C9 as amended: run_pod_sandbox with a config and a runtime handler in
\* {"", "WASI", "WASCC"} either fails with the I/O error of creating the log
\* directory and leaves the sandbox registry unchanged, or does all that C9
\* states.
C9_RunPodSandboxInsertsUnlessIoFails ==
    [][\A config \in SandboxConfigs, h \in Handlers :
           (/\ config.some
            /\ h \in {"", "WASI", "WASCC"}
            /\ run_pod_sandbox(config, h))
           => \/ /\ last'.status = IoError
                 /\ UNCHANGED sandboxes
              \/ C9_Ran(h)]_vars

\* A second sandbox was run, and the unfiltered listing shows both.
C9_Witness ==
    /\ last.op = "run_pod_sandbox"
    /\ last.status = OK
    /\ last.ret \in DOMAIN sandboxes
    /\ Len(list_pod_sandbox(DefaultFilter)) = 2

\* C10: run_pod_sandbox with a missing config, or with a runtime handler
\* outside {"", "WASI", "WASCC"}, fails with InvalidArgument and leaves the
\* sandbox registry unchanged.
C10_RunPodSandboxRejectsBadRequests ==
    [][\A config \in SandboxConfigs, h \in Handlers :
           (/\ ~config.some \/ h \notin {"", "WASI", "WASCC"}
            /\ run_pod_sandbox(config, h))
           => /\ last'.status = InvalidArgument
              /\ UNCHANGED sandboxes]_vars

\* A bad run_pod_sandbox request was refused while a sandbox was registered.
C10_Witness ==
    /\ last.op = "run_pod_sandbox"
    /\ last.status = InvalidArgument
    /\ DOMAIN sandboxes # {}

\* C11: start_container fails with NotFound when the container id is not in
\* the container registry or when the container's pod_sandbox_id is not in the
\* sandbox registry; in both cases the container registry (every container's
\* state), the running-set and the waSCC host are unchanged: no module
\* execution is launched.
C11_StartContainerNotFound ==
    [][\A c \in ContainerIds :
           (/\ \/ c \notin DOMAIN containers
               \/ containers[c].pod_sandbox_id \notin DOMAIN sandboxes
            /\ start_container(c))
           => /\ last'.status = NotFound
              /\ UNCHANGED <<sandboxes, containers, running_containers, actors>>]_vars

\* Every container id is registered and every container's sandbox is gone, so
\* the NotFound that start_container answered was for a missing sandbox.
C11_Witness ==
    /\ last.op = "start_container"
    /\ last.status = NotFound
    /\ DOMAIN containers = ContainerIds
    /\ \A c \in DOMAIN containers : containers[c].pod_sandbox_id \notin DOMAIN sandboxes

\* The container c is in a WASCC sandbox and carries no actor key.
C12_WasccWithoutKey(c) ==
    /\ c \in DOMAIN containers
    /\ containers[c].pod_sandbox_id \in DOMAIN sandboxes
    /\ sandboxes[containers[c].pod_sandbox_id].runtime_handler = "WASCC"
    /\ ACTOR_KEY_ANNOTATION \notin DOMAIN containers[c].annotations

\* What C12 states of the container c after the refused start.
C12_NotStarted(c) ==
    /\ c \in DOMAIN containers'
    /\ containers'[c].state = ContainerCreated
    /\ c \notin DOMAIN running_containers'
    /\ actors' = actors

\* C12 as stated: start_container for a container in a WASCC sandbox whose
\* annotations lack the key deislabs.io/actor-key fails with InvalidArgument,
\* and afterwards the container is still in state Created, has no running-set
\* entry, and no actor has been added to the host.
C12_StartWithoutKeyIsInvalidArgument ==
    [][\A c \in ContainerIds :
           (C12_WasccWithoutKey(c) /\ start_container(c))
           => /\ last'.status = InvalidArgument
              /\ C12_NotStarted(c)]_vars

\* C12 as amended: for such a container start_container panics when the
\* container's image_ref does not parse as a reference, and otherwise fails
\* either with the I/O error of reading the module file or with
\* InvalidArgument; in every case the container is still in state Created, has
\* no running-set entry, and no actor has been added to the host.
C12_StartWithoutKeyNeverStarts ==
    [][\A c \in ContainerIds :
           (C12_WasccWithoutKey(c) /\ start_container(c))
           => /\ IF try_from(containers[c].image_ref).some
                 THEN last'.status \in {InvalidArgument, IoError}
                 ELSE last'.status = Panic
              /\ C12_NotStarted(c)]_vars

\* A start was refused with InvalidArgument, and every registered container is
\* a container without a key in a WASCC sandbox.
C12_Witness ==
    /\ last.op = "start_container"
    /\ last.status = InvalidArgument
    /\ DOMAIN containers = ContainerIds
    /\ \A c \in DOMAIN containers : C12_WasccWithoutKey(c)

\* C13 as stated: create_container whose pod_sandbox_id is not a key of the
\* sandbox registry fails with NotFound and leaves the container registry and
\* every sandbox's running_containers list unchanged.
C13_UnknownSandboxIsNotFound ==
    [][\A s \in SandboxIds, config \in ContainerConfigs :
           (s \notin DOMAIN sandboxes /\ create_container(s, config))
           => /\ last'.status = NotFound
              /\ UNCHANGED <<sandboxes, containers>>]_vars

\* C13 as amended: create_container whose pod_sandbox_id is not a key of the
\* sandbox registry leaves the container registry and every sandbox's
\* running_containers list unchanged; when its config has an image it fails
\* with NotFound, or with the I/O error of creating the container's
\* directories, which are created before the sandbox is looked up.
C13_UnknownSandboxAddsNothing ==
    [][\A s \in SandboxIds, config \in ContainerConfigs :
           (s \notin DOMAIN sandboxes /\ create_container(s, config))
           => /\ UNCHANGED <<sandboxes, containers>>
              /\ unwrap_or_default(config, DefaultContainerConfig).image.some
                 => last'.status \in {NotFound, IoError}]_vars

\* create_container answered NotFound while a sandbox holding a container was
\* registered: the request named another sandbox.
C13_Witness ==
    /\ last.op = "create_container"
    /\ last.status = NotFound
    /\ \E s \in DOMAIN sandboxes : sandboxes[s].running_containers # <<>>
    /\ DOMAIN containers # {}

\* C14: create_container whose config is missing or whose config has no image
\* fails with InvalidArgument, returned as an error status to the caller, and
\* leaves the container registry and the sandbox registry unchanged.
C14_MissingImageIsInvalidArgument ==
    [][\A s \in SandboxIds, config \in ContainerConfigs :
           (/\ ~config.some \/ ~config.val.image.some
            /\ create_container(s, config))
           => /\ last'.status = InvalidArgument
              /\ UNCHANGED <<sandboxes, containers>>]_vars

\* C15: stop_pod_sandbox fails with NotFound for an id that is not in the
\* sandbox registry and leaves the registry unchanged.  On a sandbox of the
\* registry it returns success and leaves the sandbox NotReady, in a state
\* that stopping it again would write back as it is; and a stop_pod_sandbox of
\* a sandbox that is in such a state returns success and changes neither the
\* registries, the running-set nor the host.
C15_StopPodSandboxIdempotent ==
    [][\A s \in SandboxIds :
           stop_pod_sandbox(s)
           => IF s \notin DOMAIN sandboxes
              THEN /\ last'.status = NotFound
                   /\ UNCHANGED sandboxes
              ELSE /\ last'.status = OK
                   /\ sandboxes'[s].state = SandboxNotready
                   /\ SandboxStopped(sandboxes'[s]) = sandboxes'[s]
                   /\ SandboxStopped(sandboxes[s]) = sandboxes[s]
                      => UNCHANGED <<sandboxes, containers, running_containers, actors>>]_vars

\* stop_pod_sandbox has just returned success and no sandbox is Ready, while
\* containers are registered.  Stopping a stopped sandbox again leads from this
\* state to this state.
C15_Witness ==
    /\ last.op = "stop_pod_sandbox"
    /\ last.status = OK
    /\ DOMAIN sandboxes # {}
    /\ DOMAIN containers # {}
    /\ \A s \in DOMAIN sandboxes : sandboxes[s].state = SandboxNotready

\* The elements of a sequence.
Range(s) == {s[i] : i \in 1..Len(s)}

\* The containers that C16 says a listing with the filter returns.
C16_Matching(filter) ==
    {c \in DOMAIN containers :
        /\ filter.id = NoId \/ containers[c].id = filter.id
        /\ ~filter.state.some \/ containers[c].state = filter.state.val
        /\ filter.pod_sandbox_id = NoId \/ containers[c].pod_sandbox_id = filter.pod_sandbox_id
        /\ \A k \in DOMAIN filter.label_selector :
               /\ k \in DOMAIN containers[c].labels
               /\ containers[c].labels[k] = filter.label_selector[k]}

\* C16: list_containers(filter) returns exactly the containers c of the
\* registry for which (filter.id is empty or c.id = filter.id) and
\* (filter.state is absent or c.state = filter.state) and
\* (filter.pod_sandbox_id is empty or c.pod_sandbox_id = filter.pod_sandbox_id)
\* and every pair (k,v) of filter.label_selector satisfies labels(c)[k] = v;
\* an empty filter, or none, returns every container.
C16_ListContainersFilters ==
    [][\A request_filter \in ContainerFilters :
           (last'.op = "list_containers" /\ ListContainers(request_filter))
           => /\ last'.status = OK
              /\ request_filter.some => last'.ret = C16_Matching(request_filter.val)
              /\ (~request_filter.some \/ request_filter.val = DefaultContainerFilter)
                 => last'.ret = DOMAIN containers]_vars

\* A listing of two registered containers returned one of them.
C16_Witness ==
    /\ last.op = "list_containers"
    /\ Cardinality(DOMAIN containers) = 2
    /\ Cardinality(last.ret) = 1

\* The sandboxes that C17 says a listing with the filter returns.
C17_Matching(filter) ==
    {s \in DOMAIN sandboxes :
        /\ filter.id = NoId \/ sandboxes[s].id = filter.id
        /\ ~filter.state.some \/ sandboxes[s].state = filter.state.val
        /\ \A k \in DOMAIN filter.label_selector :
               /\ k \in DOMAIN sandboxes[s].labels
               /\ sandboxes[s].labels[k] = filter.label_selector[k]}

\* C17: list_pod_sandbox(filter) returns exactly the sandboxes s of the
\* registry for which (filter.id is empty or s.id = filter.id) and
\* (filter.state is absent or s.state = filter.state) and every pair (k,v) of
\* filter.label_selector satisfies labels(s)[k] = v, each of them once; an
\* empty or absent filter returns every sandbox, and the listing changes no
\* state.
C17_ListPodSandboxFilters ==
    [][\A request_filter \in PodSandboxFilters :
           (last'.op = "list_pod_sandbox" /\ ListPodSandbox(request_filter))
           => /\ last'.status = OK
              /\ Len(last'.ret) = Cardinality(Range(last'.ret))
              /\ request_filter.some => Range(last'.ret) = C17_Matching(request_filter.val)
              /\ (~request_filter.some \/ request_filter.val = DefaultFilter)
                 => Range(last'.ret) = DOMAIN sandboxes
              /\ UNCHANGED <<sandboxes, containers, running_containers, actors, modules>>]_vars

\* A listing of two registered sandboxes returned one of them.
C17_Witness ==
    /\ last.op = "list_pod_sandbox"
    /\ Cardinality(DOMAIN sandboxes) = 2
    /\ Len(last.ret) = 1

\* The sum of the sizes of the catalog's entries, as a number.
RECURSIVE SumOfSizes(_)
SumOfSizes(mods) ==
    IF mods = <<>> THEN 0 ELSE mods[1].size + SumOfSizes(Tail(mods))

\* C18 as stated: after any sequence of ModuleStore add and remove operations,
\* used_bytes equals the sum of size over the catalog entries and used_inodes
\* equals the number of catalog entries.
C18_UsedBytesIsTheSum ==
    [][/\ used_bytes => (last'.status = OK /\ last'.ret = SumOfSizes(modules))
       /\ used_inodes => (last'.status = OK /\ last'.ret = Len(modules))]_vars

\* C18 as amended: used_inodes equals the number of catalog entries, and
\* used_bytes equals the sum of size over the catalog entries when that sum is
\* in the range of the size type; when it is not, used_bytes panics (a build
\* with overflow checks) or returns the sum modulo the type's range.
C18_UsedBytesIsTheSumInRange ==
    [][/\ used_bytes
          => IF SumOfSizes(modules) < 2 ^ SizeBits
             THEN last'.status = OK /\ last'.ret = SumOfSizes(modules)
             ELSE \/ last'.status = Panic
                  \/ last'.status = OK /\ last'.ret = SumOfSizes(modules) % (2 ^ SizeBits)
       /\ used_inodes => (last'.status = OK /\ last'.ret = Len(modules))]_vars

\* used_bytes has summed a catalog that holds two entries with one id.
C18_Witness ==
    /\ last.op = "used_bytes"
    /\ last.status = OK
    /\ last.ret = SumOfSizes(modules)
    /\ \E i, j \in 1..Len(modules) : i # j /\ modules[i].id = modules[j].id

\* C19: a ModuleStore.pull that fails at any step (directory creation, the
\* pull primitive returning non-zero, or reading the file metadata) returns an
\* error and leaves the catalog exactly as it was; a successful pull appends
\* exactly one Module whose id is the whole reference string.
C19_PullAppendsOrLeaves ==
    [][\A reference \in References :
           pull(reference)
           => IF last'.status = OK
              THEN /\ Len(modules') = Len(modules) + 1
                   /\ SubSeq(modules', 1, Len(modules)) = modules
                   /\ modules'[Len(modules')].id = reference.whole
              ELSE modules' = modules]_vars

\* A pull has failed on a catalog that earlier pulls or adds had filled.
C19_Witness ==
    /\ last.op = "pull"
    /\ last.status \in {CannotPullModule, CannotFetchModuleMetadata}
    /\ Len(modules) >= 1

\* C20: pull_image with an image string that does not parse as a reference
\* fails with InvalidArgument and leaves the catalog unchanged; with a
\* well-formed reference whose pull succeeds it returns the original reference
\* string, and list_images afterwards contains a module whose id is that
\* string.
C20_PullImageRejectsMalformed ==
    [][\A image \in Images :
           (image.some /\ pull_image(image))
           => IF ~try_from(image.val).some
              THEN /\ last'.status = InvalidArgument
                   /\ modules' = modules
              ELSE last'.status = OK
                   => /\ last'.ret = image.val
                      /\ \E i \in 1..Len(modules') : modules'[i].id = image.val]_vars

\* C21: parsing a reference succeeds exactly for the strings that hold a '/'
\* and a ':' after the first '/' with a non-empty registry, repository and
\* tag; on success the registry is the text before the first '/', the
\* repository the text between that '/' and the first ':' after it, and the tag
\* the text after that ':'; every other string is rejected.
C21_FirstSlash(string) == Find(string, 1, "/")

C21_ColonAfter(string) == Find(string, C21_FirstSlash(string) + 1, ":")

C21_WellFormed(string) ==
    /\ C21_FirstSlash(string) > 1
    /\ C21_ColonAfter(string) > C21_FirstSlash(string) + 1
    /\ C21_ColonAfter(string) < Len(string)

C21_ParsesExactlyTheWellFormed ==
    [][\A string \in Strings :
           TryFrom(string)
           => LET result == last'.ret.result
                  slash == C21_FirstSlash(string)
                  colon == C21_ColonAfter(string)
              IN  /\ (result # None) <=> C21_WellFormed(string)
                  /\ result # None
                     => /\ registry(result.val) = SubSeq(string, 1, slash - 1)
                        /\ repository(result.val)
                               = SubSeq(string, slash + 1, colon - 1)
                        /\ tag(result.val)
                               = SubSeq(string, colon + 1, Len(string))]_vars

\* C27: between RPCs, for every sandbox s, the ids in s.running_containers are
\* exactly the ids of the containers of the registry whose pod_sandbox_id is s,
\* each listed once.
C27_SandboxListsItsContainers ==
    \A s \in DOMAIN sandboxes :
        \A c \in ContainerIds :
            Occurrences(sandboxes[s].running_containers, c)
                = IF c \in DOMAIN containers /\ containers[c].pod_sandbox_id = s
                  THEN 1
                  ELSE 0

\* C28: whatever state the service has reached, remove_container(c) for a
\* container c of the registry returns a response (it does not abort) and c is
\* gone from the registry afterwards.
C28_RemoveContainerNeverAborts ==
    [][\A c \in ContainerIds :
           (c \in DOMAIN containers /\ remove_container(c))
           => /\ last'.status # Panic
              /\ c \notin DOMAIN containers']_vars

\* C29: once stop_pod_sandbox(s) has marked s NotReady, create_container with
\* pod_sandbox_id = s adds no container to the registry and no id to
\* s.running_containers.
C29_NoContainerInAStoppedSandbox ==
    [][\A s \in SandboxIds : \A config \in ContainerConfigs :
           (/\ s \in DOMAIN sandboxes
            /\ sandboxes[s].state = SandboxNotready
            /\ create_container(s, config))
           => /\ containers' = containers
              /\ sandboxes'[s].running_containers
                     = sandboxes[s].running_containers]_vars

\* C22: update_runtime_config with a non-empty string that parses as a CIDR
\* sets the pod-CIDR cell to the parsed network; with the empty string (or with
\* no network configuration at all) it clears the cell; with a non-empty string
\* that does not parse it fails with InvalidArgument and leaves the cell as it
\* was.
C22_UpdateRuntimeConfigSetsThePodCidr ==
    [][\A runtime_config \in RuntimeConfigs :
           update_runtime_config(runtime_config)
           => LET raw == RawPodCidr(runtime_config)
              IN  /\ (raw # <<>> /\ IpNet_from_str(raw) # None)
                     => /\ last'.status = OK
                        /\ pod_cidr' = IpNet_from_str(raw)
                  /\ raw = <<>>
                     => /\ last'.status = OK
                        /\ pod_cidr' = None
                  /\ (raw # <<>> /\ IpNet_from_str(raw) = None)
                     => /\ last'.status = InvalidArgument
                        /\ pod_cidr' = pod_cidr]_vars

\* An unparsable string was refused while the cell held a network, and the
\* cell still holds it.
C22_Witness ==
    /\ last.op = "update_runtime_config"
    /\ last.status = InvalidArgument
    /\ pod_cidr = Some([addr |-> <<192, 168, 1, 0>>, prefix_len |-> 24])

\* C23: a handler that holds both the sandbox-registry lock and the
\* container-registry lock took the sandbox-registry lock first: no handler
\* asks for the sandbox-registry lock while it holds the container-registry
\* lock.
C23_SandboxLockFirst ==
    \A t \in Tasks :
        Requested(tasks[t].pc).lock = "sandboxes" => "containers" \notin Holds(t)

\* C24: no handler holds the sandbox-registry, container-registry, running-set
\* or module-store lock at a statement where it awaits blocking work (the
\* directory creation, the read of the module file, the construction of the
\* WASI runtime on the blocking pool).
C24_NoLockAcrossBlockingWork ==
    \A t \in Tasks : tasks[t].pc \in BlockingWork => Holds(t) = {}

\* C25: start_container on a WASI container returns its response without
\* waiting for run(): rt.run() is invoked by a step that is no step of a
\* handler, and once the handler has sent the start signal it returns success
\* whether or not run() ever returns.
C25_StartContainerDoesNotWaitForRun ==
    /\ [][\A h \in Harnesses :
              harness'[h].runs # harness[h].runs => UNCHANGED tasks]_vars
    /\ \A t \in Tasks :
           At(t, "start_container", "RuntimeContainer::start")
               ~> (tasks[t].pc = "returned" /\ tasks[t].status = OK)

\* A start_container has returned success while the module it started is
\* still inside run().
C25_Witness ==
    \E t \in Tasks :
        /\ At(t, "start_container", "returned")
        /\ tasks[t].status = OK
        /\ harness[t].task = "running"

\* t cannot go on before u lets go of a lock.
C26_WaitsFor(t, u) ==
    LET request == Requested(tasks[t].pc)
    IN  /\ t # u
        /\ request # NoLock
        /\ \/ locks[request.lock].writer = u
           \/ request.write /\ u \in locks[request.lock].readers

\* C26: no interleaving of concurrent create_container, start_container,
\* stop_container, remove_container, stop_pod_sandbox and remove_pod_sandbox
\* invocations reaches a state in which handlers wait for one another's locks
\* for ever.
C26_NoMutualWait ==
    ~ \E waiting \in SUBSET Tasks :
          /\ waiting # {}
          /\ \A t \in waiting : \E u \in waiting : C26_WaitsFor(t, u)

\* C30: a RuntimeContainer never invokes run() before start() was called,
\* invokes it at most once, and one dropped without start() never invokes it.
C30_RunOnlyAfterStartAndOnce ==
    /\ [][\A h \in Harnesses :
              harness'[h].runs # harness[h].runs => harness[h].started]_vars
    /\ [](\A h \in Harnesses :
              /\ harness[h].runs <= 1
              /\ (harness[h].sender = "dropped" /\ ~harness[h].started)
                     => harness[h].runs = 0)

\* One harness was dropped unstarted and its task has died in recv with run()
\* never invoked; another was started and has invoked run() once.
C30_Witness ==
    \E dropped, started \in Harnesses :
        /\ harness[dropped].sender = "dropped"
        /\ harness[dropped].task = "panicked"
        /\ harness[dropped].runs = 0
        /\ harness[started].started
        /\ harness[started].runs = 1

\* C40: for every string s that parses to a Reference r, whole(r) = s,
\* registry(r) + "/" + repository(r) + ":" + tag(r) = s, registry(r) holds no
\* '/' and repository(r) holds no ':'.
C40_ReferenceRoundTrip ==
    [][(last'.op = "try_from" /\ TryFrom(last'.ret.string)
            /\ last'.ret.result # None)
           => LET string == last'.ret.string
                  r == last'.ret.result.val
              IN  /\ whole(r) = string
                  /\ registry(r) \o <<"/">> \o repository(r) \o <<":">> \o tag(r)
                         = string
                  /\ Find(registry(r), 1, "/") = 0
                  /\ Find(repository(r), 1, ":") = 0]_vars

\* A string with a second '/' and a second ':' was parsed: the repository
\* keeps the '/', the tag keeps the ':'.
C40_Witness ==
    /\ last.op = "try_from"
    /\ last.status = OK
    /\ last.ret.string = <<"a", "/", "/", ":", ":">>
    /\ repository(last.ret.result.val) = <<"/">>
    /\ tag(last.ret.result.val) = <<":">>

\* C35: after any sequence of pulls, adds and removes, no two entries of the
\* module catalog have the same id.
C35_CatalogIdsAreDistinct ==
    \A i, j \in 1 .. Len(modules) : modules[i].id = modules[j].id => i = j

\* C36: ModuleStore::remove(key) fails with NotFound and leaves the catalog
\* unchanged when no entry has the id key; otherwise it removes exactly one
\* entry with that id, returns it, and keeps the other entries in their order.
C36_RemoveTakesOneEntry ==
    [][\A key \in ModuleIds :
           remove(key)
           => IF \A i \in 1 .. Len(modules) : modules[i].id # key
              THEN /\ last'.status = NotFound
                   /\ modules' = modules
              ELSE /\ last'.status = OK
                   /\ last'.ret.id = key
                   /\ \E i \in 1 .. Len(modules) :
                          /\ modules[i] = last'.ret
                          /\ modules' = VecRemove(modules, i)]_vars

\* An entry was removed and returned while another entry with the same id
\* stays in the catalog.
C36_Witness ==
    /\ last.op = "remove"
    /\ last.status = OK
    /\ \E i \in 1 .. Len(modules) : modules[i].id = last.ret.id

\* C37: the image service and the runtime service work on one module store:
\* in every state the catalog of the runtime service's store equals the catalog
\* of the image service's store, so a module that pull_image has added is in
\* both.
C37_OneModuleStore == runtime_modules = modules

\* C31: start_container launches at most one execution per container: on a
\* container that is already in state Running it launches no second execution
\* (the handler answers success only after it has launched the module and
\* stored the new token).
C31_RunningContainerIsNotStartedAgain ==
    [][\A c \in ContainerIds :
           (/\ c \in DOMAIN containers
            /\ containers[c].state = ContainerRunning
            /\ start_container(c))
           => last'.status # OK]_vars

\* C33: in every state each actor loaded in the waSCC host has a running-set
\* token that carries its key; a start_container that returns an error leaves
\* no actor loaded.
C33_LoadedActorsHaveTokens ==
    \A key \in actors :
        \E c \in DOMAIN running_containers :
            running_containers[c] = WasccCancelationToken(key)

\* C34: the HTTP capability configuration that reaches the waSCC host for an
\* actor has a PORT entry, equal to the container's PORT environment value when
\* there is one and to "80" otherwise.
C34_ConfiguredPort ==
    [][(last'.op = "wascc_run_http"
            /\ wascc_run_http(last'.ret.env, last'.ret.key)
            /\ last'.ret.configure # None)
           => LET env == last'.ret.env
                  configured == last'.ret.configure.val.env
              IN  /\ "PORT" \in DOMAIN configured
                  /\ configured["PORT"]
                         = IF "PORT" \in DOMAIN env THEN env["PORT"] ELSE "80"]_vars

\* C38: a RuntimeFuture resolves only after rt.run() has returned, to an
\* error exactly when run() returned an error and otherwise to what
\* rt.output() gives, and no wake-up is lost: with run() terminating, a future
\* that has been polled resolves in the end.
C38_FutureResolvesAfterRun ==
    /\ [](\A f \in Futures :
              futures[f].result # "none"
              => /\ futures[f].runner = "done"
                 /\ futures[f].result = "runtime error" <=> futures[f].err)
    /\ \A f \in Futures :
           futures[f].poll \in {"locking", "pending"} ~> futures[f].poll = "ready"

\* A future was polled before its run ended, was woken by the runner, polled
\* again and resolved to the output.
C38_Witness ==
    \E f \in Futures :
        /\ futures[f].poll = "ready"
        /\ futures[f].wakes = 1
        /\ futures[f].result = "output"

\* C39: output() returns the readers while the module is still executing: a
\* call made after the runner thread has begun rt.run() can complete without
\* run() returning first.
C39_OutputWhileRunning ==
    \A f \in Futures :
        (futures[f].output = "locking" /\ futures[f].runner = "running")
        => ENABLED output(f)

====
